---- MODULE Spec2Model ----
(***************************************************************************)
(* Model of mhub-serial-bridge: the Bridge (src/src/bridge.ts), the Hub    *)
(* reconnect loop (src/src/hub.ts) and the SerialPortScanner               *)
(* (src/unnamed/part_000).  Each component has its own specification, in   *)
(* which the other components and the external libraries (MHub client,     *)
(* SerialPort, fs.realpath) are the environment.                           *)
(***************************************************************************)
EXTENDS Integers, Sequences, FiniteSets, TLC

\* ------------------------------------------------------------------ bounds

\* Number of attach() calls made on the Bridge; call c hands device c over
\* and creates Connection c.
MaxCalls == 2

\* Number of faults of the environment: publish/unsubscribe calls the broker
\* rejects, and 'error' events of the devices.
MaxFaults == 2

Calls == 1..MaxCalls

\* Topic prefixes the attach() calls choose from.
PrefixSeq == <<"p1", "p2">>

Prefixes == {PrefixSeq[i] : i \in DOMAIN PrefixSeq}

\* ----------------------------------------------------------------- strings

\* A JavaScript string is a sequence of one-character strings.
StrUndefined == <<"u", "n", "d", "e", "f", "i", "n", "e", "d">>

\* An optional property of an options object: absent, or present with the
\* value undefined, or present with a string.
Absent == [present |-> FALSE, defined |-> FALSE, str |-> <<>>]

Undefined == [present |-> TRUE, defined |-> FALSE, str |-> <<>>]

StrVal(s) == [present |-> TRUE, defined |-> TRUE, str |-> s]

\* const defaultOptions = { delimiter: "\n" }
defaultOptions == StrVal(<<"\n">>)

\* { ...defaultOptions, ...options }: the spread copies every own property
\* of options, a property whose value is undefined included.
FullOptions(delimiter) == IF delimiter.present THEN delimiter ELSE defaultOptions

\* `${value}` in a template literal.
TemplateString(value) == IF value.defined THEN value.str ELSE StrUndefined

\* The delimiter each configured port gives with its topicPrefix: the
\* options attach() receives are the port's entry of the configuration.
ConfigDelimiter(p) == IF p = "p1" THEN Absent ELSE Undefined

\* message.data of a broker message: a string or something else.
StringPayload(s) == [isString |-> TRUE, str |-> s]

NonStringPayload == [isString |-> FALSE, str |-> <<>>]

\* The payloads the broker delivers to the Bridge.
Payloads == {StringPayload(<<"a">>), NonStringPayload}

\* --------------------------------------------------------------- variables

VARIABLES
    client,       \* Bridge._client is set
    connections,  \* Bridge._connections: insertion-ordered map prefix -> Connection
    aPc,          \* per attach() call: where the call is
    aPrefix,      \* per call: options.topicPrefix
    portState,    \* per device: "open", "closing" (close() requested), "closed"
    errArmed,     \* per Connection: its port.once("error") listener is registered
    rejPending,   \* per Connection: a publish/unsubscribe made for it will be rejected
    faults,       \* number of rejected calls and device errors so far
    linkUp,       \* the MHub client has a live session
    subs,         \* subscription ids active on the live session
    shPc,         \* shutdown(): "idle", "publishing", "done", "failed"
    shRest,       \* shutdown(): oldConnections not yet published
    out,          \* the publish, unsubscribe and write calls the last step made
    hOpenPub,     \* history: 'open' was published for the Connection
    hSwept,       \* history: the Connection was in the map at a 'disconnect'
    hShActive,    \* history: the prefixes shutdown() captured along with a client
    hShCloses,    \* history: per prefix, 'close' publishes made since shutdown()
    uncaught      \* a SerialPort emitted 'error' with no listener: the process died

bridgeVars == <<client, connections, aPc, aPrefix, portState, errArmed,
                rejPending, faults, linkUp, subs, shPc, shRest, out,
                hOpenPub, hSwept, hShActive, hShCloses, uncaught>>

VARIABLES
    hasUser,      \* Hub._user !== undefined
    hasPass,      \* Hub._pass !== undefined
    hubPc,        \* Hub.run(): "connecting", "loggingIn", "connected", "closing", "delaying"
    lastSuccess,  \* the local variable of Hub.run()
    attempts,     \* number of connect attempts started
    hubEvent,     \* the event Hub.run() emitted in the last step, or "none"
    hAnnounced,   \* history: 'connect' was emitted and no 'disconnect' since
    hConnected,   \* history: connect() succeeded in this cycle
    hLoggedIn,    \* history: login() succeeded in this cycle
    hCycle,       \* history: how the last cycle ended: "none", "failed", "closed", "error"
    hFailures,    \* history: number of consecutive failed connect/login attempts
    hDelays,      \* history: delays waited since the last cycle ended
    hDelayMs      \* history: length of the last delay

hubVars == <<hasUser, hasPass, hubPc, lastSuccess, attempts, hubEvent, hAnnounced,
             hConnected, hLoggedIn, hCycle, hFailures, hDelays, hDelayMs>>

VARIABLES
    realpath,     \* per configured path: the real path it resolves to, or NoPath
    paused,       \* SerialPortScanner._paused
    sleeper,      \* SerialPortScanner._sleeper is set
    tracked,      \* the keys of SerialPortScanner._ports
    scPc,         \* run(): "idle", "scanning", "opening", "onOpen", "sleeping", "woken"
    scIdx,        \* _scan(): index of the configured path being resolved
    found,        \* _scan(): foundPorts, insertion-ordered map real path -> configured path
    newPorts,     \* _tick(): the entries of newPorts not yet handled, the current one first
    curH,         \* _tick(): the handle being opened or handed to onOpen
    scInterval,   \* run(): the interval of the pending sleep, "scan" or "idle"
    hdState,      \* per handle: "unused", "opening", "failed", "open", "closing", "closed"
    hdPath,       \* per handle: the real path it was opened on (comName)
    hdOk,         \* per handle: openSuccessful of its 'close' listener
    hResolved,    \* history: per configured path, what it resolved to in this tick
    hTickOpens,   \* history: per real path, SerialPorts constructed for it in this tick
    hTickCalls,   \* history: per real path, onOpen calls made for it in this tick
    trigger,      \* InterruptibleSleep._trigger: "pending" or "resolved"
    hIntr,        \* history: the interrupt() of the last step found a sleep
                  \* "pending", or found the loop "busy"; "none" without a call
    hResumed,     \* history: where resume() found the paused loop, "asleep" or
                  \* "inTick", until the next tick starts; else "no"
    loops,        \* the while (true) loops of run() started so far
    runError      \* the message of the Error the last run() call threw, or "none"

scanVars == <<realpath, paused, sleeper, tracked, scPc, scIdx, found, newPorts, curH,
              scInterval, hdState, hdPath, hdOk, hResolved, hTickOpens, hTickCalls,
              trigger, hIntr, hResumed, loops, runError>>

\* What the calls of run() leave behind.
runVars == <<loops, runError>>

VARIABLES
    dOptions,     \* the delimiter property of the options given to attach()
    dMessage,     \* the payload of the message handed to Connection.dispatch()
    dWritten,     \* the lines dispatch() handed to port.write()
    dPc           \* "ready", then "done" once dispatch() has returned

dispVars == <<dOptions, dMessage, dWritten, dPc>>

\* ------------------------------------------------------------ Map helpers

Has(m, k) == \E i \in DOMAIN m : m[i].key = k

Get(m, k) == LET i == CHOOSE j \in DOMAIN m : m[j].key = k IN m[i].val

MapSet(m, k, v) ==
    IF Has(m, k)
    THEN [i \in DOMAIN m |-> IF m[i].key = k THEN [key |-> k, val |-> v] ELSE m[i]]
    ELSE Append(m, [key |-> k, val |-> v])

MapDelete(m, k) == SelectSeq(m, LAMBDA e : e.key # k)

Values(m) == [i \in DOMAIN m |-> m[i].val]

Range(s) == {s[i] : i \in DOMAIN s}

\* ---------------------------------------------------------------- outputs

\* client.publish(node, `${prefix}/${topic}`, data) made for Connection c
\* (c = 0: made by shutdown()).
Publish(c, p, topic, data) ==
    [op |-> "publish", conn |-> c, prefix |-> p, topic |-> topic, data |-> data,
     line |-> <<>>]

\* client.unsubscribe(node, undefined, id) made for Connection c.
Unsubscribe(c, id) ==
    [op |-> "unsubscribe", conn |-> c, prefix |-> id, topic |-> "", data |-> "",
     line |-> <<>>]

\* this._port.write(line) on the device of Connection c.
Write(c, p, line) ==
    [op |-> "write", conn |-> c, prefix |-> p, topic |-> "", data |-> "",
     line |-> line]

\* ------------------------------------------------------------------ Bridge

\* new Connection(port, fullOptions) has run for call c and attach() has not
\* thrown: the Connection's listeners on the device can reach the Bridge.
Created(c) == aPc[c] \in {"subscribing", "ok"}

\* attach() has registered the Bridge's listeners on Connection c.
Wired(c) == aPc[c] = "ok"

\* Connection.destroy(): this._port.close().
Destroy(ps, c) == IF ps[c] = "open" THEN [ps EXCEPT ![c] = "closing"] ELSE ps

\* SerialPort.close(), called without a callback by Connection.destroy():
\* the Connections among cs on whose port it emits 'error', the port not
\* being open.
CloseErrors(ps, cs) == {c \in cs : ps[c] # "open"}

\* One of those 'error' events finds port.once("error") of the Connection
\* used up, and no other listener.
Uncaught(ps, armed, cs) == \E c \in CloseErrors(ps, cs) : ~armed[c]

\* port.once("error") of the Connections cs has run.
Disarm(armed, cs) == [c \in Calls |-> armed[c] /\ c \notin cs]

RECURSIVE DestroyAll(_, _)
DestroyAll(ps, conns) ==
    IF conns = <<>> THEN ps ELSE DestroyAll(Destroy(ps, Head(conns)), Tail(conns))

\* Bridge._safePublish(): the publish calls it makes.
SafePublish(c, topic, data) ==
    IF ~client THEN {} ELSE {Publish(c, aPrefix[c], topic, data)}

\* Bridge._safeUnsubscribe() makes its unsubscribe call.
SafeUnsubscribe(c) == client

\* The calls made for Connection c in this step are confirmed (fail = FALSE)
\* or one of them will be rejected.
Outcome(c, called, fail) ==
    /\ fail => called /\ faults < MaxFaults
    /\ rejPending' = IF fail THEN [rejPending EXCEPT ![c] = TRUE] ELSE rejPending
    /\ faults' = IF fail THEN faults + 1 ELSE faults

\* attach() without its first check.
AlreadyConnected_Unchecked(p) == FALSE

\* The first check of attach(): this._connections.has(options.topicPrefix).
AlreadyConnected(p) == Has(connections, p)

\* The prefixes attach() call c may name: one that an earlier call named, or
\* the first one that none has.
Named == {aPrefix[b] : b \in {b \in Calls : aPc[b] # "idle"}}

FirstUnnamed ==
    {PrefixSeq[i] : i \in {i \in DOMAIN PrefixSeq :
                              /\ PrefixSeq[i] \notin Named
                              /\ \A j \in 1..(i - 1) : PrefixSeq[j] \in Named}}

\* attach(port, options), up to its first await.
Attach(c, p) ==
    /\ ~uncaught
    /\ aPc[c] = "idle"
    /\ \A b \in Calls : b < c => aPc[b] # "idle"
    /\ p \in Named \cup FirstUnnamed
    /\ aPrefix' = [aPrefix EXCEPT ![c] = p]
    /\ IF AlreadyConnected(p)
       THEN /\ aPc' = [aPc EXCEPT ![c] = "rejDup"]
            /\ UNCHANGED errArmed
       ELSE /\ errArmed' = [errArmed EXCEPT ![c] = TRUE]
            /\ IF ~client
               THEN aPc' = [aPc EXCEPT ![c] = "rejNoClient"]
               ELSE aPc' = [aPc EXCEPT ![c] = "subscribing"]
    /\ out' = {}
    /\ UNCHANGED <<client, connections, portState, rejPending, faults, linkUp,
                   subs, shPc, shRest, hOpenPub, hSwept>>
    /\ UNCHANGED uncaught

\* Connection.start(): the 'open' announcement.
Start(c) == SafePublish(c, "state", "open")

\* attach() after its await: the subscribe is confirmed.
SubscribeResolved(c) ==
    /\ ~uncaught
    /\ aPc[c] = "subscribing"
    /\ aPc' = [aPc EXCEPT ![c] = "ok"]
    /\ subs' = IF linkUp THEN subs \cup {aPrefix[c]} ELSE subs
    /\ connections' = MapSet(connections, aPrefix[c], c)
    /\ out' = Start(c)
    /\ hOpenPub' = [hOpenPub EXCEPT ![c] = Start(c) # {}]
    /\ \E fail \in BOOLEAN : Outcome(c, Start(c) # {}, fail)
    /\ UNCHANGED <<client, aPrefix, portState, errArmed, linkUp, shPc, shRest,
                   hSwept>>
    /\ UNCHANGED uncaught

\* attach() after its await: the subscribe is rejected, attach() throws.
SubscribeRejected(c) ==
    /\ ~uncaught
    /\ aPc[c] = "subscribing"
    /\ aPc' = [aPc EXCEPT ![c] = "rejSub"]
    /\ out' = {}
    /\ UNCHANGED <<client, connections, aPrefix, portState, errArmed, rejPending,
                   faults, linkUp, subs, shPc, shRest, hOpenPub, hSwept>>
    /\ UNCHANGED uncaught

\* Connection.dispatch(message): the lines written to the device.
Dispatch(message, delimiter) ==
    IF ~message.isString THEN <<>>
    ELSE <<message.str \o TemplateString(delimiter)>>

\* Bridge._handleMessage(message, subscriptionId).
HandleMessage(id, message) ==
    /\ ~uncaught
    /\ linkUp
    /\ id \in subs
    /\ IF ~Has(connections, id)
       THEN out' = {}
       ELSE LET c == Get(connections, id)
                lines == Dispatch(message, FullOptions(ConfigDelimiter(aPrefix[c])))
            IN out' = {Write(c, aPrefix[c], lines[i]) : i \in DOMAIN lines}
    /\ UNCHANGED <<client, connections, aPc, aPrefix, portState, errArmed,
                   rejPending, faults, linkUp, subs, shPc, shRest, hOpenPub, hSwept>>
    /\ UNCHANGED uncaught

\* The device of Connection c delivers data: parsed.on("data").
PortData(c) ==
    /\ ~uncaught
    /\ Created(c)
    /\ portState[c] # "closed"
    /\ LET pubs == IF Wired(c) THEN SafePublish(c, "rx", "data") ELSE {}
       IN /\ out' = pubs
          /\ \E fail \in BOOLEAN : Outcome(c, pubs # {}, fail)
    /\ UNCHANGED <<client, connections, aPc, aPrefix, portState, errArmed,
                   linkUp, subs, shPc, shRest, hOpenPub, hSwept>>
    /\ UNCHANGED uncaught

\* The device of Connection c emits 'error': port.once("error") runs, or has
\* run before and the event has no listener.
PortError(c) ==
    /\ ~uncaught
    /\ Created(c)
    /\ portState[c] # "closed"
    /\ faults < MaxFaults
    /\ uncaught' = ~errArmed[c]
    /\ errArmed' = Disarm(errArmed, {c})
    /\ LET pubs == IF errArmed[c] /\ Wired(c)
                   THEN SafePublish(c, "state", "error") ELSE {}
       IN /\ out' = pubs
          /\ \E fail \in BOOLEAN :
                /\ fail => pubs # {} /\ faults + 1 < MaxFaults
                /\ rejPending' = IF fail THEN [rejPending EXCEPT ![c] = TRUE]
                                 ELSE rejPending
                /\ faults' = IF fail THEN faults + 2 ELSE faults + 1
    /\ UNCHANGED <<client, connections, aPc, aPrefix, portState,
                   linkUp, subs, shPc, shRest, hOpenPub, hSwept>>

\* conn.once("close") of attach() without the delete.
CloseDeletes_None(m, c) == m

\* conn.once("close") of attach(): this._connections.delete(options.topicPrefix).
CloseDeletes(m, c) == MapDelete(m, aPrefix[c])

\* The device of Connection c emits 'close': port.once("close") of the
\* Connection, then conn.once("close") of attach().
PortClosed(c) ==
    /\ ~uncaught
    /\ Created(c)
    /\ portState[c] # "closed"
    /\ portState' = [portState EXCEPT ![c] = "closed"]
    /\ LET pubs == IF Wired(c) THEN SafePublish(c, "state", "close") ELSE {}
           unsub == Wired(c) /\ SafeUnsubscribe(c)
       IN /\ out' = pubs \cup (IF unsub THEN {Unsubscribe(c, aPrefix[c])} ELSE {})
          /\ connections' = IF Wired(c) THEN CloseDeletes(connections, c)
                            ELSE connections
          /\ \E fail \in BOOLEAN :
                /\ Outcome(c, pubs # {} \/ unsub, fail)
                /\ subs' = IF unsub /\ ~fail THEN subs \ {aPrefix[c]} ELSE subs
    /\ UNCHANGED <<client, aPc, aPrefix, errArmed, linkUp, shPc, shRest,
                   hOpenPub, hSwept>>
    /\ UNCHANGED uncaught

\* A publish or unsubscribe made for Connection c is rejected:
\* .catch((err) => conn.destroy(err)).  On a port that is not open close()
\* emits 'error', which the Connection publishes if its listener is left.
OpRejected(c) ==
    /\ ~uncaught
    /\ rejPending[c]
    /\ portState' = Destroy(portState, c)
    /\ uncaught' = Uncaught(portState, errArmed, {c})
    /\ errArmed' = Disarm(errArmed, CloseErrors(portState, {c}))
    /\ LET pubs == IF c \in CloseErrors(portState, {c}) /\ errArmed[c]
                   THEN SafePublish(c, "state", "error") ELSE {}
       IN /\ out' = pubs
          /\ \E fail \in BOOLEAN :
                /\ fail => pubs # {} /\ faults < MaxFaults
                /\ rejPending' = [rejPending EXCEPT ![c] = fail]
                /\ faults' = IF fail THEN faults + 1 ELSE faults
    /\ UNCHANGED <<client, connections, aPc, aPrefix, linkUp, subs, shPc, shRest,
                   hOpenPub, hSwept>>

\* Bridge._handleConnect(client), on the hub's 'connect' of a new session.  The
\* requests of the session before it have all been settled by then: Hub.run()
\* closes the client before it connects again.
HandleConnect ==
    /\ ~uncaught
    /\ ~linkUp
    /\ \A c \in Calls : aPc[c] # "subscribing"
    /\ linkUp' = TRUE
    /\ client' = TRUE
    /\ out' = {}
    /\ UNCHANGED <<connections, aPc, aPrefix, portState, errArmed, rejPending,
                   faults, subs, shPc, shRest, hOpenPub, hSwept>>
    /\ UNCHANGED uncaught

\* Bridge._handleDisconnect(), on the hub's 'disconnect' when the session ends.
HandleDisconnect ==
    /\ ~uncaught
    /\ linkUp
    /\ linkUp' = FALSE
    /\ subs' = {}
    /\ client' = FALSE
    /\ portState' = DestroyAll(portState, Values(connections))
    /\ uncaught' = Uncaught(portState, errArmed, Range(Values(connections)))
    /\ errArmed' = Disarm(errArmed, CloseErrors(portState, Range(Values(connections))))
    /\ out' = {}
    /\ hSwept' = [c \in Calls |-> hSwept[c] \/ c \in Range(Values(connections))]
    /\ UNCHANGED <<connections, aPc, aPrefix, rejPending, faults,
                   shPc, shRest, hOpenPub>>

\* The session of the client ends without the hub's 'disconnect': the broker
\* forgets its subscriptions, the Bridge is not told.
LinkLost ==
    /\ ~uncaught
    /\ linkUp
    /\ linkUp' = FALSE
    /\ subs' = {}
    /\ out' = {}
    /\ UNCHANGED <<client, connections, aPc, aPrefix, portState, errArmed,
                   rejPending, faults, shPc, shRest, hOpenPub, hSwept>>
    /\ UNCHANGED uncaught

\* shutdown(), up to its first await: the captured client and Connections,
\* _handleDisconnect(), and the first 'close' publish on the captured client.
Shutdown ==
    /\ ~uncaught
    /\ shPc = "idle"
    /\ LET oldClient == client
           oldConnections == Values(connections)
       IN /\ client' = FALSE
          /\ portState' = DestroyAll(portState, oldConnections)
          /\ uncaught' = Uncaught(portState, errArmed, Range(oldConnections))
          /\ errArmed' = Disarm(errArmed, CloseErrors(portState, Range(oldConnections)))
          /\ IF oldClient /\ oldConnections # <<>>
             THEN /\ shPc' = "publishing"
                  /\ shRest' = Tail(oldConnections)
                  /\ out' = {Publish(0, aPrefix[Head(oldConnections)], "state", "close")}
             ELSE /\ shPc' = "done"
                  /\ shRest' = <<>>
                  /\ out' = {}
    /\ UNCHANGED <<connections, aPc, aPrefix, rejPending, faults,
                   linkUp, subs, hOpenPub, hSwept>>

\* shutdown(): the awaited publish is confirmed; the next one is made.
ShutdownPublished ==
    /\ ~uncaught
    /\ shPc = "publishing"
    /\ linkUp
    /\ IF shRest = <<>>
       THEN /\ shPc' = "done"
            /\ out' = {}
            /\ UNCHANGED shRest
       ELSE /\ shRest' = Tail(shRest)
            /\ out' = {Publish(0, aPrefix[Head(shRest)], "state", "close")}
            /\ UNCHANGED shPc
    /\ UNCHANGED <<client, connections, aPc, aPrefix, portState, errArmed,
                   rejPending, faults, linkUp, subs, hOpenPub, hSwept>>
    /\ UNCHANGED uncaught

\* shutdown(): the awaited publish is rejected, shutdown() throws.
ShutdownRejected ==
    /\ ~uncaught
    /\ shPc = "publishing"
    /\ shPc' = "failed"
    /\ out' = {}
    /\ UNCHANGED <<client, connections, aPc, aPrefix, portState, errArmed,
                   rejPending, faults, linkUp, subs, shRest, hOpenPub, hSwept>>
    /\ UNCHANGED uncaught

\* The 'close' publishes on `${p}/state` among the calls o.
StateCloses(o, p) ==
    {r \in o : r.op = "publish" /\ r.prefix = p /\ r.topic = "state" /\ r.data = "close"}

\* History of shutdown(): the prefixes of the Connections it captured when
\* it was called with a client, and
\* the 'close' publishes made from its call on, kept up to two per prefix.
ObserveShutdown ==
    /\ hShActive' = IF shPc = "idle" /\ shPc' # "idle"
                    THEN IF client
                         THEN {aPrefix[c] : c \in Range(Values(connections))}
                         ELSE {}
                    ELSE hShActive
    /\ hShCloses' = IF shPc' = "idle" THEN hShCloses
                    ELSE [p \in Prefixes |->
                            IF hShCloses[p] + Cardinality(StateCloses(out', p)) >= 2
                            THEN 2
                            ELSE hShCloses[p] + Cardinality(StateCloses(out', p))]

InitBridge ==
    /\ client = FALSE
    /\ connections = <<>>
    /\ aPc = [c \in Calls |-> "idle"]
    /\ aPrefix = [c \in Calls |-> "p1"]
    /\ portState = [c \in Calls |-> "open"]
    /\ errArmed = [c \in Calls |-> FALSE]
    /\ rejPending = [c \in Calls |-> FALSE]
    /\ faults = 0
    /\ linkUp = FALSE
    /\ subs = {}
    /\ shPc = "idle"
    /\ shRest = <<>>
    /\ out = {}
    /\ hOpenPub = [c \in Calls |-> FALSE]
    /\ hSwept = [c \in Calls |-> FALSE]
    /\ hShActive = {}
    /\ hShCloses = [p \in Prefixes |-> 0]
    /\ uncaught = FALSE

\* --------------------------------------------------------------------- Hub

\* Number of connect attempts Hub.run() makes.
MaxAttempts == 4

\* await delay(3000)
RetryDelay == 3000

\* this.emit("connect", this._client), reached once connect() and login() are done.
EmitConnect ==
    /\ hubEvent' = "connect"
    /\ hAnnounced' = TRUE
    /\ hubPc' = "connected"
    /\ hFailures' = 0

\* The catch block of Hub.run(): the try block is left where it stands.
Catch(how) ==
    /\ hubEvent' = "none"
    /\ hubPc' = "closing"
    /\ hCycle' = how
    /\ UNCHANGED hAnnounced

\* Whether Hub.run() logs in after connecting.
UsesLogin == hasUser /\ hasPass

\* await this._client.connect() succeeds.
HubConnectOk ==
    /\ hubPc = "connecting"
    /\ hConnected' = TRUE
    /\ hDelays' = 0
    /\ IF UsesLogin
       THEN /\ hubPc' = "loggingIn"
            /\ hubEvent' = "none"
            /\ UNCHANGED <<hAnnounced, hFailures>>
       ELSE EmitConnect
    /\ UNCHANGED <<hasUser, hasPass, lastSuccess, attempts, hLoggedIn, hCycle, hDelayMs>>

\* await this._client.connect() fails.
HubConnectFail ==
    /\ hubPc = "connecting"
    /\ Catch("failed")
    /\ hDelays' = 0
    /\ hFailures' = hFailures + 1
    /\ UNCHANGED <<hasUser, hasPass, lastSuccess, attempts, hConnected, hLoggedIn,
                   hDelayMs>>

\* await this._client.login(user, pass) succeeds.
HubLoginOk ==
    /\ hubPc = "loggingIn"
    /\ hLoggedIn' = TRUE
    /\ EmitConnect
    /\ UNCHANGED <<hasUser, hasPass, lastSuccess, attempts, hConnected, hCycle,
                   hDelays, hDelayMs>>

\* await this._client.login(user, pass) fails.
HubLoginFail ==
    /\ hubPc = "loggingIn"
    /\ Catch("failed")
    /\ hFailures' = hFailures + 1
    /\ UNCHANGED <<hasUser, hasPass, lastSuccess, attempts, hConnected, hLoggedIn,
                   hDelays, hDelayMs>>

\* await once(this._client, "close") resolves: the client emitted 'close'.
HubClientClose ==
    /\ hubPc = "connected"
    /\ hubEvent' = "disconnect"
    /\ hAnnounced' = FALSE
    /\ hubPc' = "closing"
    /\ hCycle' = "closed"
    /\ UNCHANGED <<hasUser, hasPass, lastSuccess, attempts, hConnected, hLoggedIn,
                   hFailures, hDelays, hDelayMs>>

\* await once(this._client, "close") rejects: the client emitted 'error'.
HubClientError ==
    /\ hubPc = "connected"
    /\ Catch("error")
    /\ UNCHANGED <<hasUser, hasPass, lastSuccess, attempts, hConnected, hLoggedIn,
                   hFailures, hDelays, hDelayMs>>

\* if (lastSuccess): the test with its negation dropped.
WaitsBeforeRetry_Negated == lastSuccess

\* if (!lastSuccess): whether Hub.run() waits before the next attempt.
WaitsBeforeRetry == ~lastSuccess

\* The next iteration of while (true) starts.
NextAttempt ==
    /\ lastSuccess' = FALSE
    /\ hubPc' = "connecting"
    /\ attempts' = attempts + 1
    /\ hConnected' = FALSE
    /\ hLoggedIn' = FALSE

\* await this._client.close() settles, either way.
HubClosed ==
    /\ hubPc = "closing"
    /\ attempts < MaxAttempts
    /\ hubEvent' = "none"
    /\ IF WaitsBeforeRetry
       THEN /\ hubPc' = "delaying"
            /\ hDelays' = hDelays + 1
            /\ hDelayMs' = RetryDelay
            /\ UNCHANGED <<lastSuccess, attempts, hConnected, hLoggedIn>>
       ELSE /\ NextAttempt
            /\ UNCHANGED <<hDelays, hDelayMs>>
    /\ UNCHANGED <<hasUser, hasPass, hAnnounced, hCycle, hFailures>>

\* await delay(3000) is over.
HubDelayElapsed ==
    /\ hubPc = "delaying"
    /\ hubEvent' = "none"
    /\ NextAttempt
    /\ UNCHANGED <<hasUser, hasPass, hAnnounced, hCycle, hFailures, hDelays, hDelayMs>>

InitHub(user, pass) ==
    /\ hasUser = user
    /\ hasPass = pass
    /\ hubPc = "connecting"
    /\ lastSuccess = FALSE
    /\ attempts = 1
    /\ hubEvent = "none"
    /\ hAnnounced = FALSE
    /\ hConnected = FALSE
    /\ hLoggedIn = FALSE
    /\ hCycle = "none"
    /\ hFailures = 0
    /\ hDelays = 0
    /\ hDelayMs = 0

\* ----------------------------------------------------------------- Scanner

\* Number of SerialPort handles the scanner constructs.
MaxHandles == 3

Handles == 1..MaxHandles

\* The keys of options.ports, in the order of Object.entries().
LinkSeq == <<"l1", "l2">>

Links == {LinkSeq[i] : i \in DOMAIN LinkSeq}

\* The real paths of the devices.
RealPaths == {"x", "y"}

\* pfs.realpath(linkPath) throws.
NoPath == "none"

\* What a configured path can resolve to, as devices come and go: the two
\* configured paths may name the same device.
Targets(l) == IF l = "l1" THEN {"x", NoPath} ELSE {"x", "y", NoPath}

\* DEFAULT_SERIAL_PORT_SCANNER_OPTIONS.expectedPorts
expectedPorts == 1

\* Object.keys(this._ports) of _scan(): _ports is a Map, which has no own
\* enumerable properties.
ObjectKeys(map) == {}

\* _scan(): foundPorts keyed by the configured path instead of the real path.
FoundSet_ByLink(m, real, link) == Append(m, [key |-> real, val |-> link])

\* _scan(): foundPorts.set(await pfs.realpath(linkPath), portOptions).
FoundSet(m, real, link) == MapSet(m, real, link)

\* _scan(): "Remove ports that no longer exist".
RemoveVanished(t, fnd) ==
    t \ {realPath \in ObjectKeys(t) : ~Has(fnd, realPath)}

\* _scan(): "Filter out entries that are already open".
FilterNew(fnd, t) == SelectSeq(fnd, LAMBDA e : e.key \notin t)

\* The handle the next new SerialPort(...) creates.
NextHandle == CHOOSE h \in Handles :
                  hdState[h] = "unused" /\ \A g \in Handles : g < h => hdState[g] # "unused"

\* InterruptibleSleep.interrupt() without a new Deferred: the resolved
\* trigger stays.
NewTrigger_Kept == "resolved"

\* InterruptibleSleep.interrupt(): this._trigger = defer().
NewTrigger == "pending"

\* InterruptibleSleep.sleep(): the race of the trigger and the timer, which a
\* resolved trigger has won already.
Sleep == IF trigger = "resolved" THEN "woken" ELSE "sleeping"

\* run(): the interval of the next sleep, and the sleep. t is _ports and hs
\* the handles' states by then.
GoSleep(t, hs) ==
    /\ scInterval' = IF Cardinality(t) < expectedPorts /\ ~paused THEN "scan" ELSE "idle"
    /\ scPc' = Sleep
    /\ curH' = 0
    /\ newPorts' = <<>>
    /\ hdState' = hs
    /\ UNCHANGED <<hdPath, hTickOpens>>

\* _tick(): the for loop goes on with the entries np: the SerialPort of the
\* first one is constructed, or the tick is over and run() sleeps.
StartNext(np, t, hs) ==
    IF np = <<>>
    THEN GoSleep(t, hs)
    ELSE /\ \E h \in Handles : hdState[h] = "unused"
         /\ scPc' = "opening"
         /\ newPorts' = np
         /\ curH' = NextHandle
         /\ hdState' = [hs EXCEPT ![NextHandle] = "opening"]
         /\ hdPath' = [hdPath EXCEPT ![NextHandle] = Head(np).key]
         /\ hTickOpens' = [hTickOpens EXCEPT ![Head(np).key] = @ + 1]
         /\ UNCHANGED scInterval

\* run(): the top of while (true): a tick starts unless the scanner is paused.
LoopTop ==
    IF ~paused
    THEN /\ scPc' = "scanning"
         /\ scIdx' = 1
         /\ found' = <<>>
         /\ hResolved' = [l \in Links |-> NoPath]
         /\ hTickOpens' = [x \in RealPaths |-> 0]
         /\ hTickCalls' = [x \in RealPaths |-> 0]
         /\ UNCHANGED <<newPorts, curH, scInterval, hdState, hdPath>>
    ELSE /\ GoSleep(tracked, hdState)
         /\ UNCHANGED <<scIdx, found, hResolved, hTickCalls>>

\* run() is called.
ScanRun ==
    /\ scPc = "idle"
    /\ ~sleeper
    /\ sleeper' = TRUE
    /\ LoopTop
    /\ UNCHANGED <<realpath, paused, tracked, hdOk>>

\* run() without its test of this._sleeper.
AlreadyRunning_Unchecked == FALSE

\* if (this._sleeper), at the top of run().
AlreadyRunning == sleeper

\* run() has passed its test and enters while (true).
Started ==
    /\ loops' = IF loops >= 2 THEN 2 ELSE loops + 1
    /\ runError' = "none"

\* run() is called once more, after the first call has entered its loop: it
\* throws, or else it sets _sleeper and enters while (true) as well.
ScanRunAgain ==
    /\ scPc # "idle"
    /\ IF AlreadyRunning
       THEN /\ runError' = "scanner already running"
            /\ UNCHANGED <<loops, sleeper, scPc, scIdx, found, newPorts, curH,
                           scInterval, hdState, hdPath, hResolved, hTickOpens,
                           hTickCalls>>
       ELSE /\ Started
            /\ sleeper' = TRUE
            /\ LoopTop
    /\ UNCHANGED <<realpath, paused, tracked, hdOk>>

\* _scan(): pfs.realpath() of one configured path settles; after the last
\* one _scan() returns and _tick() starts on the new ports.
ScanResolve ==
    /\ scPc = "scanning"
    /\ LET link == LinkSeq[scIdx]
           real == realpath[link]
           fnd == IF real = NoPath THEN found ELSE FoundSet(found, real, link)
       IN /\ found' = fnd
          /\ hResolved' = [hResolved EXCEPT ![link] = real]
          /\ IF scIdx < Len(LinkSeq)
             THEN /\ scIdx' = scIdx + 1
                  /\ UNCHANGED <<tracked, scPc, newPorts, curH, scInterval, hdState,
                                 hdPath, hTickOpens>>
             ELSE /\ tracked' = RemoveVanished(tracked, fnd)
                  /\ StartNext(FilterNew(fnd, RemoveVanished(tracked, fnd)),
                               RemoveVanished(tracked, fnd), hdState)
                  /\ UNCHANGED scIdx
    /\ UNCHANGED <<realpath, paused, sleeper, hdOk, hTickCalls>>

\* _open() resolves: the port is tracked, its 'close' listener registered and
\* onOpen called.
OpenOk ==
    /\ scPc = "opening"
    /\ hdState' = [hdState EXCEPT ![curH] = "open"]
    /\ hdOk' = [hdOk EXCEPT ![curH] = FALSE]
    /\ tracked' = tracked \cup {hdPath[curH]}
    /\ scPc' = "onOpen"
    /\ hTickCalls' = [hTickCalls EXCEPT ![hdPath[curH]] = @ + 1]
    /\ UNCHANGED <<realpath, paused, sleeper, scIdx, found, newPorts, curH,
                   scInterval, hdPath, hResolved, hTickOpens>>

\* _open() rejects: the error is logged and the loop goes on.
OpenFail ==
    /\ scPc = "opening"
    /\ StartNext(Tail(newPorts), tracked, [hdState EXCEPT ![curH] = "failed"])
    /\ UNCHANGED <<realpath, paused, sleeper, tracked, scIdx, found, hdOk,
                   hResolved, hTickCalls>>

\* onOpen resolves: openSuccessful = true.
OnOpenOk ==
    /\ scPc = "onOpen"
    /\ hdOk' = [hdOk EXCEPT ![curH] = TRUE]
    /\ StartNext(Tail(newPorts), tracked, hdState)
    /\ UNCHANGED <<realpath, paused, sleeper, tracked, scIdx, found, hResolved,
                   hTickCalls>>

\* The catch block of _tick() without port.close().
ClosePort_None(hs, h) == hs

\* port.close() of a SerialPort.
ClosePort(hs, h) == IF hs[h] = "open" THEN [hs EXCEPT ![h] = "closing"] ELSE hs

\* onOpen rejects: the port is untracked and closed.
OnOpenFail ==
    /\ scPc = "onOpen"
    /\ tracked' = tracked \ {hdPath[curH]}
    /\ StartNext(Tail(newPorts), tracked \ {hdPath[curH]}, ClosePort(hdState, curH))
    /\ UNCHANGED <<realpath, paused, sleeper, scIdx, found, hdOk, hResolved,
                   hTickCalls>>

\* resume() without the interrupt: a pending sleep() stays pending.
Interrupt_None(pc) == pc

\* InterruptibleSleep.interrupt(): a pending sleep() returns.
Interrupt(pc) == IF pc = "sleeping" THEN "woken" ELSE pc

\* The 'close' listener without its test: every closing port wakes the loop.
WakesLoop_Always(h) == TRUE

\* if (openSuccessful), in the 'close' listener of _tick().
WakesLoop(h) == hdOk[h]

\* A SerialPort emits 'close', by itself or after close(): the listener of
\* _tick() untracks its path and, once onOpen had succeeded, interrupts the
\* sleep.
HandleClosed(h) ==
    /\ hdState[h] \in {"open", "closing"}
    /\ hdState' = [hdState EXCEPT ![h] = "closed"]
    /\ tracked' = tracked \ {hdPath[h]}
    /\ scPc' = IF WakesLoop(h) THEN Interrupt(scPc) ELSE scPc
    /\ UNCHANGED <<realpath, paused, sleeper, scIdx, found, newPorts, curH,
                   scInterval, hdPath, hdOk, hResolved, hTickOpens, hTickCalls>>

\* pause()
ScanPause ==
    /\ paused' = TRUE
    /\ UNCHANGED <<realpath, sleeper, tracked, scPc, scIdx, found, newPorts, curH,
                   scInterval, hdState, hdPath, hdOk, hResolved, hTickOpens,
                   hTickCalls>>

\* resume()
ScanResume ==
    /\ paused' = FALSE
    /\ scPc' = IF sleeper THEN Interrupt(scPc) ELSE scPc
    /\ UNCHANGED <<realpath, sleeper, tracked, scIdx, found, newPorts, curH,
                   scInterval, hdState, hdPath, hdOk, hResolved, hTickOpens,
                   hTickCalls>>

\* The timer of the pending sleep() fires, and the loop goes round.
TimerElapsed ==
    /\ scPc = "sleeping"
    /\ LoopTop
    /\ UNCHANGED <<realpath, paused, sleeper, tracked, hdOk>>

\* The interrupted sleep() returns, and the loop goes round.
LoopWake ==
    /\ scPc = "woken"
    /\ LoopTop
    /\ UNCHANGED <<realpath, paused, sleeper, tracked, hdOk>>

\* A device appears, disappears, or a configured path is pointed elsewhere.
FsChange(l, r) ==
    /\ realpath[l] # r
    /\ realpath' = [realpath EXCEPT ![l] = r]
    /\ UNCHANGED <<paused, sleeper, tracked, scPc, scIdx, found, newPorts, curH,
                   scInterval, hdState, hdPath, hdOk, hResolved, hTickOpens,
                   hTickCalls>>

\* new SerialPortScanner(options, onOpen), and pause() if main() has called it.
InitScanner(isPaused) ==
    /\ realpath = [l \in Links |-> NoPath]
    /\ paused = isPaused
    /\ sleeper = FALSE
    /\ tracked = {}
    /\ scPc = "idle"
    /\ scIdx = 1
    /\ found = <<>>
    /\ newPorts = <<>>
    /\ curH = 0
    /\ scInterval = "scan"
    /\ hdState = [h \in Handles |-> "unused"]
    /\ hdPath = [h \in Handles |-> NoPath]
    /\ hdOk = [h \in Handles |-> FALSE]
    /\ hResolved = [l \in Links |-> NoPath]
    /\ hTickOpens = [x \in RealPaths |-> 0]
    /\ hTickCalls = [x \in RealPaths |-> 0]
    /\ trigger = "pending"
    /\ hIntr = "none"
    /\ hResumed = "no"
    /\ loops = 0
    /\ runError = "none"

\* The sleeper after a step that called interrupt() or did not, and the
\* history of the calls.
Sleeper(called) ==
    /\ trigger' = IF called THEN NewTrigger ELSE trigger
    /\ hIntr' = IF ~called THEN "none"
                ELSE IF scPc = "sleeping" THEN "pending" ELSE "busy"
    /\ hResumed' = IF paused /\ ~paused' /\ sleeper
                   THEN IF scPc \in {"sleeping", "woken"} THEN "asleep" ELSE "inTick"
                   ELSE IF paused' \/ (scPc # "scanning" /\ scPc' = "scanning")
                   THEN "no"
                   ELSE hResumed

\* ---------------------------------------------------------------- Dispatch

\* Length of the payloads handed to dispatch().
MaxLen == 3

Chars == {"a", "b"}

RECURSIVE StringsOfLen(_)
StringsOfLen(n) ==
    IF n = 0 THEN {<<>>}
    ELSE {Append(s, ch) : s \in StringsOfLen(n - 1), ch \in Chars}

Strings == UNION {StringsOfLen(n) : n \in 0..MaxLen}

\* The delimiter property of the options a port's configuration can carry.
Delimiters == {Absent, Undefined, StrVal(<<"\n">>), StrVal(<<"\r", "\n">>),
               StrVal(<<";">>), StrVal(<<>>)}

\* attach(port, options) builds the Connection with the merged options, and
\* a message for it is dispatched.
DispatchMessage ==
    /\ dPc = "ready"
    /\ dWritten' = Dispatch(dMessage, FullOptions(dOptions))
    /\ dPc' = "done"
    /\ UNCHANGED <<dOptions, dMessage>>

InitDispatch(options, message) ==
    /\ dOptions = options
    /\ dMessage = message
    /\ dWritten = <<>>
    /\ dPc = "ready"

\* ---------------------------------------------------------- specifications

vars == <<bridgeVars, hubVars, scanVars, dispVars>>

\* The variables each component leaves alone.
notBridge == <<hubVars, scanVars, dispVars>>

notHub == <<bridgeVars, scanVars, dispVars>>

notScanner == <<bridgeVars, hubVars, dispVars>>

notDispatch == <<bridgeVars, hubVars, scanVars>>

\* The program after main() has built its objects, without credentials.
Init ==
    /\ InitBridge
    /\ InitHub(FALSE, FALSE)
    /\ InitScanner(FALSE)
    /\ InitDispatch(Absent, NonStringPayload)

\* The same with any configuration of user and pass.
InitAnyHub ==
    /\ InitBridge
    /\ \E user, pass \in BOOLEAN : InitHub(user, pass)
    /\ InitScanner(FALSE)
    /\ InitDispatch(Absent, NonStringPayload)

\* The same with any delimiter option and any message to dispatch.
InitAnyDispatch ==
    /\ InitBridge
    /\ InitHub(FALSE, FALSE)
    /\ InitScanner(FALSE)
    /\ \E options \in Delimiters,
          message \in {StringPayload(str) : str \in Strings} \cup {NonStringPayload} :
          InitDispatch(options, message)

NextBridge ==
    \/ \E c \in Calls, p \in Prefixes : Attach(c, p) /\ ObserveShutdown /\ UNCHANGED notBridge
    \/ \E c \in Calls : SubscribeResolved(c) /\ ObserveShutdown /\ UNCHANGED notBridge
    \/ \E c \in Calls : SubscribeRejected(c) /\ ObserveShutdown /\ UNCHANGED notBridge
    \/ \E id \in Prefixes, m \in Payloads : HandleMessage(id, m) /\ ObserveShutdown /\ UNCHANGED notBridge
    \/ \E c \in Calls : PortData(c) /\ ObserveShutdown /\ UNCHANGED notBridge
    \/ \E c \in Calls : PortError(c) /\ ObserveShutdown /\ UNCHANGED notBridge
    \/ \E c \in Calls : PortClosed(c) /\ ObserveShutdown /\ UNCHANGED notBridge
    \/ \E c \in Calls : OpRejected(c) /\ ObserveShutdown /\ UNCHANGED notBridge
    \/ HandleConnect /\ ObserveShutdown /\ UNCHANGED notBridge
    \/ HandleDisconnect /\ ObserveShutdown /\ UNCHANGED notBridge

NextShutdown ==
    \/ Shutdown /\ ObserveShutdown /\ UNCHANGED notBridge
    \/ ShutdownPublished /\ ObserveShutdown /\ UNCHANGED notBridge
    \/ ShutdownRejected /\ ObserveShutdown /\ UNCHANGED notBridge

NextHub ==
    \/ HubConnectOk /\ UNCHANGED notHub
    \/ HubConnectFail /\ UNCHANGED notHub
    \/ HubLoginOk /\ UNCHANGED notHub
    \/ HubLoginFail /\ UNCHANGED notHub
    \/ HubClientClose /\ UNCHANGED notHub
    \/ HubClientError /\ UNCHANGED notHub
    \/ HubClosed /\ UNCHANGED notHub
    \/ HubDelayElapsed /\ UNCHANGED notHub

NextScanner ==
    \/ ScanRun /\ Started /\ Sleeper(FALSE) /\ UNCHANGED notScanner
    \/ ScanResolve /\ Sleeper(FALSE) /\ UNCHANGED <<runVars, notScanner>>
    \/ OpenOk /\ Sleeper(FALSE) /\ UNCHANGED <<runVars, notScanner>>
    \/ OpenFail /\ Sleeper(FALSE) /\ UNCHANGED <<runVars, notScanner>>
    \/ OnOpenOk /\ Sleeper(FALSE) /\ UNCHANGED <<runVars, notScanner>>
    \/ OnOpenFail /\ Sleeper(FALSE) /\ UNCHANGED <<runVars, notScanner>>
    \/ \E h \in Handles : HandleClosed(h) /\ Sleeper(WakesLoop(h)) /\ UNCHANGED <<runVars, notScanner>>
    \/ ScanPause /\ Sleeper(FALSE) /\ UNCHANGED <<runVars, notScanner>>
    \/ ScanResume /\ Sleeper(sleeper) /\ UNCHANGED <<runVars, notScanner>>
    \/ TimerElapsed /\ Sleeper(FALSE) /\ UNCHANGED <<runVars, notScanner>>
    \/ LoopWake /\ Sleeper(FALSE) /\ UNCHANGED <<runVars, notScanner>>
    \/ \E l \in Links : \E r \in Targets(l) :
          FsChange(l, r) /\ Sleeper(FALSE) /\ UNCHANGED <<runVars, notScanner>>

NextDispatch == DispatchMessage /\ UNCHANGED notDispatch

\* main() of index.ts, up to scanner.pause(), with a configuration that names
\* no user.
InitWired ==
    /\ InitBridge
    /\ InitHub(FALSE, FALSE)
    /\ InitScanner(TRUE)
    /\ InitDispatch(Absent, NonStringPayload)

\* The listeners main() registers on the hub for 'connect' and 'disconnect',
\* run when the step of Hub.run() emits the event.
ScannerListeners ==
    IF hubEvent' = "connect" THEN ScanResume /\ Sleeper(sleeper) /\ UNCHANGED runVars
    ELSE IF hubEvent' = "disconnect" THEN ScanPause /\ Sleeper(FALSE) /\ UNCHANGED runVars
    ELSE UNCHANGED scanVars

\* Hub.run() with the scanner paused and resumed by its events.
NextWiredHub ==
    \/ HubConnectOk /\ ScannerListeners /\ UNCHANGED <<bridgeVars, dispVars>>
    \/ HubConnectFail /\ ScannerListeners /\ UNCHANGED <<bridgeVars, dispVars>>
    \/ HubClientClose /\ ScannerListeners /\ UNCHANGED <<bridgeVars, dispVars>>
    \/ HubClientError /\ ScannerListeners /\ UNCHANGED <<bridgeVars, dispVars>>
    \/ HubClosed /\ ScannerListeners /\ UNCHANGED <<bridgeVars, dispVars>>
    \/ HubDelayElapsed /\ ScannerListeners /\ UNCHANGED <<bridgeVars, dispVars>>

\* SerialPortScanner.run() with nobody else calling pause() and resume(), and
\* one device, which comes and goes at the first configured path.
NextWiredScanner ==
    \/ ScanRun /\ Started /\ Sleeper(FALSE) /\ UNCHANGED notScanner
    \/ ScanResolve /\ Sleeper(FALSE) /\ UNCHANGED <<runVars, notScanner>>
    \/ OpenOk /\ Sleeper(FALSE) /\ UNCHANGED <<runVars, notScanner>>
    \/ OpenFail /\ Sleeper(FALSE) /\ UNCHANGED <<runVars, notScanner>>
    \/ OnOpenOk /\ Sleeper(FALSE) /\ UNCHANGED <<runVars, notScanner>>
    \/ OnOpenFail /\ Sleeper(FALSE) /\ UNCHANGED <<runVars, notScanner>>
    \/ \E h \in Handles : HandleClosed(h) /\ Sleeper(WakesLoop(h)) /\ UNCHANGED <<runVars, notScanner>>
    \/ TimerElapsed /\ Sleeper(FALSE) /\ UNCHANGED <<runVars, notScanner>>
    \/ LoopWake /\ Sleeper(FALSE) /\ UNCHANGED <<runVars, notScanner>>
    \/ \E r \in Targets(LinkSeq[1]) :
          FsChange(LinkSeq[1], r) /\ Sleeper(FALSE) /\ UNCHANGED <<runVars, notScanner>>

\* The Bridge with its Connections, the broker and the devices.
SpecBridge == Init /\ [][NextBridge]_vars

\* The same with shutdown().
SpecBridgeShutdown ==
    Init /\ [][NextBridge \/ NextShutdown]_vars

\* Hub.run() against its client.
SpecHub == InitAnyHub /\ [][NextHub]_vars

\* SerialPortScanner.run() against the file system and the devices.
SpecScanner == Init /\ [][NextScanner]_vars

\* run() called again while the loop is running.
NextRunAgain == ScanRunAgain /\ Sleeper(FALSE) /\ UNCHANGED notScanner

\* The same with further calls of run().
SpecScannerRuns == Init /\ [][NextScanner \/ NextRunAgain]_vars

\* Connection.dispatch() on every options object and payload.
SpecDispatch == InitAnyDispatch /\ [][NextDispatch]_vars

\* The listeners the Bridge registers on the hub, run when the step of
\* Hub.run() emits the event; and the session, which is over at the latest
\* when this._client.close() has settled.
BridgeListeners ==
    IF hubEvent' = "connect" THEN HandleConnect /\ ObserveShutdown
    ELSE IF hubEvent' = "disconnect" THEN HandleDisconnect /\ ObserveShutdown
    ELSE IF hubPc = "closing" /\ linkUp THEN LinkLost /\ ObserveShutdown
    ELSE UNCHANGED bridgeVars

\* Hub.run() with the Bridge listening to its events.
NextBridgedHub ==
    \/ HubConnectOk /\ BridgeListeners /\ UNCHANGED <<scanVars, dispVars>>
    \/ HubConnectFail /\ BridgeListeners /\ UNCHANGED <<scanVars, dispVars>>
    \/ HubClientClose /\ BridgeListeners /\ UNCHANGED <<scanVars, dispVars>>
    \/ HubClientError /\ BridgeListeners /\ UNCHANGED <<scanVars, dispVars>>
    \/ HubClosed /\ BridgeListeners /\ UNCHANGED <<scanVars, dispVars>>
    \/ HubDelayElapsed /\ BridgeListeners /\ UNCHANGED <<scanVars, dispVars>>

\* attach() is called from the onOpen callback of the scanner, which awaits
\* each call before it makes the next.  The calls made on a client that has
\* lost its session are left out: their subscribe can only be rejected.
OnOpen(c, p) ==
    /\ \A b \in Calls : aPc[b] # "subscribing"
    /\ client => linkUp
    /\ Attach(c, p)

\* The broker confirms a subscribe while the session it was made on lasts.
Subscribed(c) ==
    /\ linkUp
    /\ SubscribeResolved(c)

\* The Bridge, called by the scanner only and never shut down.
NextWiredBridge ==
    \/ \E c \in Calls, p \in Prefixes :
          OnOpen(c, p) /\ ObserveShutdown /\ UNCHANGED notBridge
    \/ \E c \in Calls : Subscribed(c) /\ ObserveShutdown /\ UNCHANGED notBridge
    \/ \E c \in Calls : SubscribeRejected(c) /\ ObserveShutdown /\ UNCHANGED notBridge
    \/ \E id \in Prefixes, m \in Payloads :
          HandleMessage(id, m) /\ ObserveShutdown /\ UNCHANGED notBridge
    \/ \E c \in Calls : PortData(c) /\ ObserveShutdown /\ UNCHANGED notBridge
    \/ \E c \in Calls : PortError(c) /\ ObserveShutdown /\ UNCHANGED notBridge
    \/ \E c \in Calls : PortClosed(c) /\ ObserveShutdown /\ UNCHANGED notBridge
    \/ \E c \in Calls : OpRejected(c) /\ ObserveShutdown /\ UNCHANGED notBridge

\* The hub and the Bridge as main() wires them.
SpecWiredBridge == InitWired /\ [][NextBridgedHub \/ NextWiredBridge]_vars

\* The hub and the scanner as main() wires them.
SpecWiredScanner == InitWired /\ [][NextWiredHub \/ NextWiredScanner]_vars

\* ------------------------------------------------------------ Bridge claims

\* The step in which attach() call c is made.
Attaches(c) == aPc[c] = "idle" /\ aPc'[c] # "idle"

\* C1: attach() rejects whenever a Connection is already registered under
\* options.topicPrefix or no client is set; the rejecting call makes no
\* subscribe call, adds no map entry and leaves the map, the subscriptions,
\* the devices and the other calls as they were.
C1_AttachRejects ==
    [][\A c \in Calls :
          (Attaches(c) /\ (Has(connections, aPrefix'[c]) \/ ~client))
          => /\ aPc'[c] \in {"rejDup", "rejNoClient"}
             /\ Has(connections, aPrefix'[c]) => aPc'[c] = "rejDup"
             /\ out' = {}
             /\ connections' = connections
             /\ subs' = subs
             /\ portState' = portState
             /\ client' = client
             /\ \A b \in Calls \ {c} : aPc'[b] = aPc[b]]_vars

\* C1 witness: a call was rejected as already connected while the Connection
\* that holds the prefix is attached, its device open, its subscription active.
C1_Witness ==
    \E c \in Calls :
        /\ aPc[c] = "rejDup"
        /\ Has(connections, aPrefix[c])
        /\ portState[Get(connections, aPrefix[c])] = "open"
        /\ aPrefix[c] \in subs
        /\ client

\* C2: at most one device is bridged under a topicPrefix: no two Connections
\* with the same prefix are wired to publish at the same time, and no
\* subscribe with a subscriptionId is in flight while that id is subscribed.
C2_OnePerPrefix ==
    /\ \A c, b \in Calls :
          (c # b /\ Wired(c) /\ Wired(b) /\ aPrefix[c] = aPrefix[b])
          => (portState[c] = "closed" \/ portState[b] = "closed")
    /\ \A c \in Calls :
          aPc[c] = "subscribing" => aPrefix[c] \notin subs

\* C3: for a successful attach() 'open' is the first value published for the
\* Connection: every other publish made for it, and every line written to
\* its device, comes after its 'open' publish.
C3_OpenFirst ==
    \A r \in out :
        (r.conn \in Calls /\ r.op \in {"publish", "write"}
                          /\ ~(r.op = "publish" /\ r.data = "open"))
        => hOpenPub[r.conn]

\* C4: every Connection in the map at a 'disconnect' has its device closed,
\* and no rx publish is made for it afterwards.
C4_DisconnectSweep ==
    /\ \A c \in Calls : hSwept[c] => portState[c] # "open"
    /\ \A r \in out :
          (r.op = "publish" /\ r.topic = "rx" /\ r.conn \in Calls)
          => ~hSwept[r.conn]

\* --------------------------------------------------------------- Hub claims

\* C5: after a cycle that ended with a successful connect and the link closing
\* later, the next attempt starts without a delay; the delay is waited only
\* after a failed connect/login.
C5_QuickReconnect ==
    /\ (hubPc = "connecting" /\ hCycle = "closed") => hDelays = 0
    /\ hubPc = "delaying" => hCycle = "failed"

\* C6: after any number of consecutive failed connect/login attempts the next
\* attempt is preceded by exactly one delay, of 3000 ms.
C6_FixedDelay ==
    (hubPc = "connecting" /\ hFailures >= 1)
    => (hCycle = "failed" /\ hDelays = 1 /\ hDelayMs = 3000)

\* C6 witness: the attempt after three consecutive failures is about to start,
\* one delay after the third.
C6_Witness ==
    hubPc = "connecting" /\ hFailures = 3 /\ hDelays = 1 /\ hDelayMs = RetryDelay

\* C7: 'connect' is emitted only after connect() and, with user and pass
\* configured, login() have succeeded; every 'connect' has been followed by a
\* 'disconnect' when the next connect attempt starts; a failed connect/login
\* emits no event.
C7_SessionEvents ==
    /\ hubEvent = "connect" => (hConnected /\ (UsesLogin => hLoggedIn))
    /\ hubPc = "connecting" => ~hAnnounced
    /\ (hubPc = "closing" /\ hCycle = "failed") => hubEvent = "none"

\* ----------------------------------------------------------- Scanner claims

\* C8: in every scan tick the scanner constructs at most one SerialPort and
\* calls onOpen at most once for a real path, also when two configured paths
\* resolve to that real path, and the tracked map holds real paths only.
C8_OnePerRealPath ==
    /\ \A x \in RealPaths : hTickOpens[x] <= 1 /\ hTickCalls[x] <= 1
    /\ tracked \subseteq RealPaths

\* Both configured paths resolved to one real path in this tick, and the
\* port opened for it has been handed to onOpen.
C8_Witness ==
    /\ scPc = "onOpen"
    /\ \A l \in Links : hResolved[l] = "x"
    /\ hTickOpens["x"] = 1
    /\ hTickCalls["x"] = 1
    /\ tracked = {"x"}

\* The handles of a real path that are open.
OpenHandles(x) == {h \in Handles : hdPath[h] = x /\ hdState[h] = "open"}

\* C9: a real path never has two open handles at once, and it is in the
\* tracked map exactly when one handle opened for it is still open.
C9_TrackedIffOpen ==
    \A x \in RealPaths :
        /\ Cardinality(OpenHandles(x)) <= 1
        /\ x \in tracked <=> Cardinality(OpenHandles(x)) = 1

\* ---------------------------------------------------------- Dispatch claims

\* C10: the line written for a string payload is the payload followed by
\* the configured delimiter, by "\n" when the options name no delimiter,
\* and by nothing when the delimiter option is explicitly undefined.
C10_Framing ==
    (dPc = "done" /\ dMessage.isString) =>
        dWritten = << dMessage.str \o
                      (IF ~dOptions.present THEN <<"\n">>
                       ELSE IF ~dOptions.defined THEN <<>>
                       ELSE dOptions.str) >>

\* --------------------------------------------------------- Shutdown claims

\* C11: shutdown() clears the client and requests close of the device of
\* every Connection in the map, and once it has settled, exactly one 'close'
\* has been published on the state topic of each Connection it captured.
C11_ShutdownCloses ==
    /\ shPc # "idle" =>
           \A p \in hShActive : hShCloses[p] <= 1
    /\ shPc \in {"done", "failed"} =>
           \A p \in hShActive : hShCloses[p] = 1

\* ------------------------------------------------------ Pause/resume claims

\* C12, as stated: after resume() was called while the running loop was
\* paused, at whatever point of the loop, the loop is not found waiting for
\* the idle-interval timer before the next tick has started.
C12_ResumeStartsTick ==
    hResumed # "no" => ~(scPc = "sleeping" /\ scInterval = "idle")

\* C12, amended: resume() clears the paused flag, and when it is called while
\* the paused loop is in its sleep, that sleep returns and the loop is on its
\* way to the next tick without waiting for the timer.
C12_ResumeWakesSleep ==
    /\ hResumed # "no" => ~paused
    /\ hResumed = "asleep" => scPc = "woken"

\* resume() has interrupted the idle sleep of the paused loop.
C12_Witness ==
    /\ hResumed = "asleep"
    /\ scPc = "woken"
    /\ scInterval = "idle"
    /\ hIntr = "pending"

\* C13: an interrupt() that finds a sleep() pending makes that sleep return
\* without its timer, and nothing else does: a sleep() is never cut short by
\* an interrupt() called before it started, however many there were.
C13_InterruptWakesPending ==
    [][/\ hIntr' = "pending" => scPc' = "woken"
       /\ (scPc # "woken" /\ scPc' = "woken") => (scPc = "sleeping" /\ hIntr' = "pending")
       /\ hIntr' # "none" => trigger' = "pending"]_vars

\* A sleep is pending although interrupt() was called, through resume(),
\* while the tick before it was still in progress.
C13_Witness ==
    /\ scPc = "sleeping"
    /\ hResumed = "inTick"
    /\ trigger = "pending"

\* ------------------------------------------------------------ Wiring claims

\* C14: whenever the broker session is not connected the scanner is paused,
\* and a scan tick starts only while the session is connected.
C14_PausedWhileDown ==
    [][/\ hubPc' # "connected" => paused'
       /\ (scPc # "scanning" /\ scPc' = "scanning") => hubPc' = "connected"]_vars

\* C15: while a session is connected, no Connection stays registered in the
\* Bridge with its device open and without a subscription on that session:
\* the Connections of the session before it have been closed.
C15_Resubscribed ==
    hubPc = "connected" =>
        \A c \in Range(Values(connections)) :
            portState[c] = "open" => aPrefix[c] \in subs

\* --------------------------------------------------------- Lifetime claims

\* C16: once the device handed to attach() has emitted 'close', no
\* Connection for it is in the map, and no attach() is rejected as already
\* connected because of it.
C16_NoConnectionOutlivesDevice ==
    /\ \A c \in Range(Values(connections)) : portState[c] # "closed"
    /\ \A b \in Calls :
          aPc[b] = "rejDup" =>
              \E c \in Calls \ {b} : aPrefix[c] = aPrefix[b] /\ portState[c] # "closed"

\* C17: while the Bridge has no client and no attach() is awaiting its
\* subscribe, no Connection is in the map with its device open.
C17_NoConnectionOutlivesSession ==
    (~client /\ \A b \in Calls : aPc[b] # "subscribing") =>
        \A c \in Range(Values(connections)) : portState[c] # "open"

\* ------------------------------------------------------------- Tick claims

\* C18: when _scan() returns, every tracked real path is among the real
\* paths the configured paths resolved to in this scan.
C18_ScanDropsVanished ==
    [][(scPc = "scanning" /\ scPc' # "scanning") =>
          \A x \in tracked' : Has(found', x)]_vars

\* C19: the step in which onOpen fails for a port untracks its real path and
\* requests its close, and the tick goes on with the next new port if there
\* is one; and when a scan ends, every resolved real path that is not
\* tracked, a path whose onOpen failed before included, is a new port of
\* the tick.
C19_FailedOnOpen ==
    [][/\ (scPc = "onOpen" /\ scPc' # "onOpen" /\ ~hdOk'[curH]) =>
             /\ hdPath[curH] \notin tracked'
             /\ hdState'[curH] \in {"closing", "closed"}
             /\ IF Tail(newPorts) # <<>>
                THEN /\ scPc' = "opening"
                     /\ hdPath'[curH'] = Head(Tail(newPorts)).key
                ELSE scPc' \in {"sleeping", "woken"}
       /\ (scPc = "scanning" /\ scPc' # "scanning") =>
             /\ {x \in RealPaths : Has(found', x) /\ x \notin tracked'}
                    = {newPorts'[i].key : i \in DOMAIN newPorts'}
             /\ newPorts' # <<>> => scPc' = "opening"]_vars

\* onOpen failed for one new port of a tick, which was untracked and asked to
\* close, and the tick is opening the next one.
C19_Witness ==
    /\ scPc = "opening"
    /\ \E h \in Handles \ {curH} :
          /\ hdState[h] = "closing"
          /\ ~hdOk[h]
          /\ hdPath[h] \notin tracked
          /\ hTickCalls[hdPath[h]] = 1
          /\ hdPath[curH] # hdPath[h]

\* C20: the step in which a port opened by the scanner emits 'close'
\* untracks its real path, and it calls interrupt(), waking a pending sleep,
\* exactly when onOpen had succeeded for that port.
C20_CloseWakesLoop ==
    [][\A h \in Handles :
          (hdState[h] # "closed" /\ hdState'[h] = "closed") =>
              /\ hdPath[h] \notin tracked'
              /\ hIntr' # "none" <=> hdOk[h]
              /\ scPc = "sleeping" => (scPc' = "woken" <=> hdOk[h])
              /\ scPc # "sleeping" => scPc' = scPc]_vars

\* A port whose onOpen had succeeded has closed and woken the sleeping loop.
C20_Witness ==
    /\ scPc = "woken"
    /\ hIntr = "pending"
    /\ \E h \in Handles :
          hdState[h] = "closed" /\ hdOk[h] /\ hdPath[h] \notin tracked
\* -------------------------------------------------------------- Run claims

\* The step is a call of run() made while the loop is running.
RunsAgain == scPc # "idle" /\ runError' # runError

\* C21: one loop of run() exists at most; a tick starts from the top of that
\* loop only, when the sleep or the call of run() is over, no SerialPort is
\* being opened and no onOpen callback is pending; and a call of run() made
\* while the loop is running throws 'scanner already running' and leaves the
\* loop, its sleeper, its ports and its handles as they were.
C21_TicksInSequence ==
    [][/\ loops' <= 1
       /\ (scPc' = "scanning" /\ (scPc # "scanning" \/ scIdx' < scIdx)) =>
             /\ scPc \in {"idle", "sleeping", "woken"}
             /\ curH = 0
             /\ \A h \in Handles : hdState[h] # "opening"
       /\ RunsAgain =>
             /\ runError' = "scanner already running"
             /\ UNCHANGED <<realpath, paused, sleeper, tracked, scPc, scIdx, found,
                            newPorts, curH, scInterval, hdState, hdPath, hdOk,
                            trigger, loops>>]_vars

\* run() was called again while a port was being handed to onOpen, and threw.
C21_Witness ==
    /\ runError = "scanner already running"
    /\ scPc = "onOpen"
    /\ loops = 1
    /\ sleeper
\* ------------------------------------------------------------ Close claims

\* The step in which the device of the attached Connection c emits 'close'
\* while the Bridge has a client with a live session.
ClosesAttached(c) ==
    /\ aPc[c] = "ok"
    /\ portState[c] # "closed"
    /\ portState'[c] = "closed"
    /\ client
    /\ linkUp

\* C22: the step in which the device of an attached Connection closes during
\* a session publishes 'close' on its state topic, issues an unsubscribe for
\* the id that is its topic prefix and leaves the map without an entry for
\* that prefix; and a line is written only to the device of the Connection
\* the map holds for the subscription id of the message, so that a message
\* whose id has no entry is dropped.
C22_CloseDetaches ==
    [][/\ \A c \in Calls :
             ClosesAttached(c) =>
                 /\ Publish(c, aPrefix[c], "state", "close") \in out'
                 /\ Unsubscribe(c, aPrefix[c]) \in out'
                 /\ ~Has(connections', aPrefix[c])
       /\ \A r \in out' :
             r.op = "write" =>
                 /\ Has(connections, r.prefix)
                 /\ Get(connections, r.prefix) = r.conn]_vars

\* The device of an attached Connection has closed during a session: 'close'
\* was published, the unsubscribe issued and the map has no entry for its
\* prefix, while the subscription is still active on the broker.
C22_Witness ==
    \E c \in Calls :
        /\ aPc[c] = "ok"
        /\ portState[c] = "closed"
        /\ client
        /\ linkUp
        /\ Publish(c, aPrefix[c], "state", "close") \in out
        /\ Unsubscribe(c, aPrefix[c]) \in out
        /\ ~Has(connections, aPrefix[c])
        /\ aPrefix[c] \in subs
\* ------------------------------------------------------------ Error claims

\* C23: the step that handles the rejection of a publish or unsubscribe
\* made for a Connection requests the close of that Connection's device,
\* leaves the devices of the other Connections, the map and the client as
\* they were, and raises no error that nobody handles, whether the device
\* is still open or has closed already.
C23_RejectionContained ==
    [][\A c \in Calls :
          (rejPending[c] /\ ~rejPending'[c]) =>
              /\ portState'[c] # "open"
              /\ \A d \in Calls \ {c} : portState'[d] = portState[d]
              /\ connections' = connections
              /\ client' = client
              /\ ~uncaught']_vars
\* The step in which the open device of the attached Connection c emits
\* 'error' and the listener of the Connection handles it, the Bridge having
\* a client.
ReportsError(c) ==
    /\ aPc[c] = "ok"
    /\ client
    /\ portState[c] = "open"
    /\ errArmed[c]
    /\ ~errArmed'[c]

\* C24: the step in which an open bridged device emits an error publishes
\* 'error' on the state topic of its Connection and has the device closed or
\* its close requested, the close being what takes the Connection out of the
\* map and the path out of the scanner's ports.
C24_ErrorClosesDevice ==
    [][\A c \in Calls :
          ReportsError(c) =>
              /\ Publish(c, aPrefix[c], "state", "error") \in out'
              /\ portState'[c] # "open"]_vars

====
